---- MODULE Spec2Model ----
(***************************************************************************)
(* Model of the masking orchestration core of dcs-snowflake-streamlit:     *)
(*   calculate_optimal_batch_size      (batch planner)                     *)
(*   process_single_batch_masking      (per-batch mask / merge / save)     *)
(*   process_single_table_masking      (per-table coordinator)             *)
(*   process_single_table_inplace_masking (in-place wrapper)               *)
(*   execute_masking_workflow / execute_inplace_masking_workflow           *)
(*   DCSAPIClient.mask_data_raw_powerquery_format (service adapter)        *)
(*                                                                         *)
(* A cell of a table is a record [k, r, c]: k is the kind of value         *)
(* ("raw" original, "str" stringified original, "masked" / "maskedbad"     *)
(* value produced by the masking service, "dt_*" re-parsed datetime,       *)
(* "null" NaN/NaT, "stale" a row that was in the destination before the    *)
(* run), r the identity of the source row it was derived from and c the    *)
(* column it belongs to.  A row is a sequence of cells in column order, a  *)
(* DataFrame a sequence of rows.                                           *)
(***************************************************************************)
EXTENDS Integers, Sequences, FiniteSets, TLC

\* ------------------------------------------------------------------ bounds
MaxTables == 2          \* longest selected_tables list explored
MaxWorkers == 2         \* largest max_workers explored
MaxRows == 12           \* largest source table explored
ScaledCeilingBytes == 45 \* payload ceiling the coordinator's planner runs with
                        \* (the 1.8 MB default scaled down so that a table of
                        \*  MaxRows rows needs more than one batch)

\* ------------------------------------------------------- program constants
min_batch_size == 10
FallbackBatchSize == 1000
NoSensitiveBatchSize == 5000
VarcharCap == 1000

\* ------------------------------------------------------------- table shape
TableColumns == <<"ID", "NAME", "DOB">>

\* INFORMATION_SCHEMA.COLUMNS rows of the modelled table
ColumnMetadata(c) ==
    CASE c = "ID"   -> [DATA_TYPE |-> "NUMBER",  CHARACTER_MAXIMUM_LENGTH |-> 0,  NUMERIC_PRECISION |-> 10]
      [] c = "NAME" -> [DATA_TYPE |-> "VARCHAR", CHARACTER_MAXIMUM_LENGTH |-> 20, NUMERIC_PRECISION |-> 0]
      [] c = "DOB"  -> [DATA_TYPE |-> "DATE",    CHARACTER_MAXIMUM_LENGTH |-> 0,  NUMERIC_PRECISION |-> 0]
      [] OTHER      -> [DATA_TYPE |-> "NONE",    CHARACTER_MAXIMUM_LENGTH |-> 0,  NUMERIC_PRECISION |-> 0]

Cell(kind, r, c) == [k |-> kind, r |-> r, c |-> c]

SourceRow(i) == [j \in 1..Len(TableColumns) |-> Cell("raw", i, TableColumns[j])]

SourceTable(n) == [i \in 1..n |-> SourceRow(i)]

StaleRow == [j \in 1..Len(TableColumns) |-> Cell("stale", 0, TableColumns[j])]

\* name = value; body: the value of an assignment is computed once and then
\* used by the statements that follow
With(value, body(_)) == CHOOSE r \in {body(name) : name \in {value}} : TRUE

Max(a, b) == IF a >= b THEN a ELSE b

Min(a, b) == IF a <= b THEN a ELSE b

\* columns of a DataFrame, in order (empty for an empty frame)
Columns(df) == IF Len(df) = 0 THEN <<>> ELSE [j \in DOMAIN df[1] |-> df[1][j].c]

ColumnSet(df) == {Columns(df)[j] : j \in DOMAIN Columns(df)}

RowGet(row, c) == row[CHOOSE j \in DOMAIN row : row[j].c = c]

\* ---------------------------------------------------------------- planner
\* the heuristic with two bytes for each character of a text column
col_bytes_TwoBytesPerChar(col_info) ==
    LET data_type == col_info.DATA_TYPE
        max_length == col_info.CHARACTER_MAXIMUM_LENGTH
        precision == col_info.NUMERIC_PRECISION
    IN  CASE data_type \in {"VARCHAR", "CHAR", "TEXT", "STRING"} ->
                IF max_length > 0 THEN Min(2 * max_length, VarcharCap) ELSE 100
          [] data_type \in {"NUMBER", "DECIMAL", "NUMERIC"} ->
                IF precision > 0 THEN Max(8, precision \div 2) ELSE 16
          [] data_type \in {"INTEGER", "BIGINT"} -> 8
          [] data_type \in {"FLOAT", "DOUBLE"} -> 8
          [] data_type \in {"BOOLEAN"} -> 1
          [] data_type \in {"DATE"} -> 10
          [] data_type \in {"TIMESTAMP", "TIMESTAMP_NTZ", "TIMESTAMP_LTZ", "TIMESTAMP_TZ"} -> 25
          [] data_type \in {"TIME"} -> 12
          [] OTHER -> 50

\* per-column byte heuristic of calculate_optimal_batch_size
col_bytes(col_info) ==
    LET data_type == col_info.DATA_TYPE
        max_length == col_info.CHARACTER_MAXIMUM_LENGTH
        precision == col_info.NUMERIC_PRECISION
    IN  CASE data_type \in {"VARCHAR", "CHAR", "TEXT", "STRING"} ->
                IF max_length > 0 THEN Min(max_length, VarcharCap) ELSE 100
          [] data_type \in {"NUMBER", "DECIMAL", "NUMERIC"} ->
                IF precision > 0 THEN Max(8, precision \div 2) ELSE 16
          [] data_type \in {"INTEGER", "BIGINT"} -> 8
          [] data_type \in {"FLOAT", "DOUBLE"} -> 8
          [] data_type \in {"BOOLEAN"} -> 1
          [] data_type \in {"DATE"} -> 10
          [] data_type \in {"TIMESTAMP", "TIMESTAMP_NTZ", "TIMESTAMP_LTZ", "TIMESTAMP_TZ"} -> 25
          [] data_type \in {"TIME"} -> 12
          [] OTHER -> 50

\* an estimate that divides the first column's bytes by the number of columns
SumBytes_Diluted(metadata_df) ==
    IF Len(metadata_df) = 0 THEN 0
    ELSE col_bytes(Head(metadata_df)) \div Len(metadata_df)

\* estimated_bytes_per_row: the sum of col_bytes over the metadata rows
RECURSIVE SumBytes(_)
SumBytes(metadata_df) ==
    IF Len(metadata_df) = 0 THEN 0
    ELSE col_bytes(Head(metadata_df)) + SumBytes(Tail(metadata_df))

\* a fallback that ignores the number of rows of the table
PlannerFallback_Unbounded(known, total_rows) ==
    [batch_size |-> FallbackBatchSize,
     total_rows |-> IF known THEN total_rows ELSE 0,
     total_batches |-> Max(1, IF known THEN total_rows \div FallbackBatchSize ELSE 1),
     estimated_bytes_per_row |-> 0,
     path |-> "fallback",
     error |-> TRUE,
     raised |-> FALSE]

\* the except branch of calculate_optimal_batch_size; known = 'total_rows' in locals()
PlannerFallback(known, total_rows) ==
    LET fallback_batch_size == Min(FallbackBatchSize, IF known THEN total_rows ELSE FallbackBatchSize)
    IN  [batch_size |-> fallback_batch_size,
         total_rows |-> IF known THEN total_rows ELSE 0,
         total_batches |-> Max(1, IF known /\ fallback_batch_size # 0
                                  THEN total_rows \div fallback_batch_size ELSE 1),
         estimated_bytes_per_row |-> 0,
         path |-> "fallback",
         error |-> TRUE,
         raised |-> known /\ fallback_batch_size = 0]    \* ZeroDivisionError in the handler

\* the planner without the adjustment to the number of rows of the table
calculate_optimal_batch_size_NoClamp(count_ok, total_rows, sensitive_columns, meta_ok, metadata_df, max_batch_size_bytes) ==
    IF ~count_ok THEN PlannerFallback(FALSE, 0)
    ELSE IF total_rows = 0 THEN
        [batch_size |-> FallbackBatchSize, total_rows |-> 0, total_batches |-> 0,
         estimated_bytes_per_row |-> 0, path |-> "empty", error |-> FALSE, raised |-> FALSE]
    ELSE IF sensitive_columns = {} THEN
        [batch_size |-> Min(NoSensitiveBatchSize, total_rows), total_rows |-> total_rows,
         total_batches |-> 1, estimated_bytes_per_row |-> 0, path |-> "nosensitive", error |-> FALSE,
         raised |-> FALSE]
    ELSE IF ~meta_ok THEN PlannerFallback(TRUE, total_rows)
    ELSE LET estimated_bytes_per_row == SumBytes(metadata_df) IN
        IF estimated_bytes_per_row = 0 THEN PlannerFallback(TRUE, total_rows)
        ELSE LET max_rows_per_batch == max_batch_size_bytes \div estimated_bytes_per_row
                 calculated_batch_size == Max(min_batch_size, max_rows_per_batch)
                 rounded == (calculated_batch_size \div 10) * 10
                 floored == IF rounded < min_batch_size THEN min_batch_size ELSE rounded
             IN  [batch_size |-> floored,
                  total_rows |-> total_rows,
                  total_batches |-> (total_rows + floored - 1) \div floored,
                  estimated_bytes_per_row |-> estimated_bytes_per_row,
                  path |-> "metadata",
                  error |-> FALSE,
                  raised |-> FALSE]

\* count_ok / meta_ok: whether the COUNT(*) and the metadata query returned;
\* metadata_df: the rows the metadata query returned; max_batch_size_bytes:
\* the payload ceiling in bytes (int(max_batch_size_mb * 1024 * 1024)).
calculate_optimal_batch_size(count_ok, total_rows, sensitive_columns, meta_ok, metadata_df, max_batch_size_bytes) ==
    IF ~count_ok THEN PlannerFallback(FALSE, 0)
    ELSE IF total_rows = 0 THEN
        [batch_size |-> FallbackBatchSize, total_rows |-> 0, total_batches |-> 0,
         estimated_bytes_per_row |-> 0, path |-> "empty", error |-> FALSE, raised |-> FALSE]
    ELSE IF sensitive_columns = {} THEN
        [batch_size |-> Min(NoSensitiveBatchSize, total_rows), total_rows |-> total_rows,
         total_batches |-> 1, estimated_bytes_per_row |-> 0, path |-> "nosensitive", error |-> FALSE,
         raised |-> FALSE]
    ELSE IF ~meta_ok THEN PlannerFallback(TRUE, total_rows)
    ELSE LET estimated_bytes_per_row == SumBytes(metadata_df) IN
        IF estimated_bytes_per_row = 0 THEN PlannerFallback(TRUE, total_rows)   \* ZeroDivisionError
        ELSE LET max_rows_per_batch == max_batch_size_bytes \div estimated_bytes_per_row
                 calculated_batch_size == Max(min_batch_size, max_rows_per_batch)
                 rounded == (calculated_batch_size \div 10) * 10
                 floored == IF rounded < min_batch_size THEN min_batch_size ELSE rounded
                 optimal_batch_size == IF floored >= total_rows THEN total_rows ELSE floored
             IN  [batch_size |-> optimal_batch_size,
                  total_rows |-> total_rows,
                  total_batches |-> IF floored >= total_rows THEN 1
                                    ELSE (total_rows + optimal_batch_size - 1) \div optimal_batch_size,
                  estimated_bytes_per_row |-> estimated_bytes_per_row,
                  path |-> "metadata",
                  error |-> FALSE,
                  raised |-> FALSE]

\* --------------------------------------------------------- service adapter
\* str(value) / "" of safe_dataframe_to_records
Str(v) == IF v.k = "null" THEN Cell("empty", v.r, v.c) ELSE Cell("str", v.r, v.c)

\* batch_df[list(column_rules.keys())] rendered as a list of records
safe_dataframe_to_records(df, cols) ==
    [i \in DOMAIN df |-> [c \in cols |-> Str(RowGet(df[i], c))]]

\* The 'items' the masking service answers with (external behaviour):
\*   ok       one masked record per request record, every column present
\*   baddate  as ok, but the masked values do not parse as dates
\*   short    the last record is missing
\*   nocol    one of the requested columns is missing from every record
\*   long     one record too many
\*   empty    no record
DroppedColumn(column_rules) ==
    TableColumns[CHOOSE j \in DOMAIN TableColumns :
                    /\ TableColumns[j] \in column_rules
                    /\ \A h \in 1..(j - 1) : TableColumns[h] \notin column_rules]

ServiceItems(kind, data_records, column_rules) ==
    LET full(mk, cols) == [i \in DOMAIN data_records |->
                              [c \in cols |-> Cell(mk, data_records[i][c].r, c)]]
    IN  CASE kind = "ok"      -> full("masked", column_rules)
          [] kind = "baddate" -> full("maskedbad", column_rules)
          [] kind = "short"   -> SubSeq(full("masked", column_rules), 1, Len(data_records) - 1)
          [] kind = "nocol"   -> full("masked", column_rules \ {DroppedColumn(column_rules)})
          [] kind = "long"    -> Append(full("masked", column_rules), full("masked", column_rules)[1])
          [] OTHER            -> <<>>

\* DCSAPIClient.mask_data_raw_powerquery_format; kind = "raise" is an HTTP /
\* authentication / format error of the call
mask_data_raw_powerquery_format(data_records, column_rules, kind) ==
    IF kind = "raise" THEN [raised |-> TRUE, masked_records |-> <<>>, items |-> <<>>]
    ELSE With(ServiceItems(kind, data_records, column_rules), LAMBDA masked_records :
        IF Len(masked_records) > Len(data_records)
        THEN [raised |-> TRUE, masked_records |-> <<>>, items |-> masked_records]  \* data_records[i]: IndexError
        ELSE [raised |-> FALSE,
              items |-> masked_records,
              masked_records |->
                [i \in DOMAIN masked_records |->
                    [c \in DOMAIN data_records[i] |->
                        IF c \in column_rules /\ c \in DOMAIN masked_records[i]
                        THEN masked_records[i][c]
                        ELSE data_records[i][c]]]])

\* ----------------------------------------------------------- batch pipeline
\* col_name.upper().endswith('DOB') or 'DATE' in col_name.upper()
IsDateColumn(c) == c \in {"DOB", "BIRTH_DATE", "DATE_CREATED"}

\* pd.to_datetime(values, errors='coerce') on one value
to_datetime(v) ==
    CASE v.k = "masked" -> Cell("dt_masked", v.r, v.c)
      [] v.k = "str"    -> Cell("dt_raw", v.r, v.c)
      [] OTHER          -> Cell("null", 0, v.c)          \* NaT

\* columns of pd.DataFrame(masked_records)
MaskedColumns(masked_records) ==
    UNION {DOMAIN masked_records[i] : i \in DOMAIN masked_records}

\* final_df = batch_df.copy(); final_df[col] = masked_values for every rule
\* column present in the masked frame.  The assignment aligns on the row
\* index, so rows the masked frame does not have become null.
MergeCell(orig, i, masked_records, column_rules) ==
    IF orig.c \in column_rules /\ orig.c \in MaskedColumns(masked_records)
    THEN LET mv == IF i <= Len(masked_records) /\ orig.c \in DOMAIN masked_records[i]
                   THEN masked_records[i][orig.c]
                   ELSE Cell("null", 0, orig.c)
         IN  IF IsDateColumn(orig.c) THEN to_datetime(mv) ELSE mv
    ELSE orig

Merge(batch_df, masked_records, column_rules) ==
    [i \in DOMAIN batch_df |->
        [j \in DOMAIN batch_df[i] |-> MergeCell(batch_df[i][j], i, masked_records, column_rules)]]

\* what went over the wire in the masking call of a batch: records sent, records
\* and columns in the service's answer (history, not visible to the code)
NoExchange == [called |-> FALSE, raised |-> FALSE, sent |-> 0, received |-> 0, columns |-> {},
               unparsed |-> {}]

\* the (record, column) positions of an answer that hold a masked value of a
\* date column which does not parse as a date
Unparsed(items) ==
    UNION {{<<i, c>> : c \in {d \in DOMAIN items[i] : IsDateColumn(d) /\ items[i][d].k = "maskedbad"}} :
              i \in DOMAIN items}

Exchange(data_records, masking_response) ==
    [called |-> TRUE, raised |-> masking_response.raised, sent |-> Len(data_records),
     received |-> Len(masking_response.items),
     columns |-> MaskedColumns(masking_response.items),
     unparsed |-> Unparsed(masking_response.items)]

BatchResult(batch_number, success, error, rows_processed, final_df, exchange) ==
    [batch_number |-> batch_number, success |-> success, error |-> error,
     rows_processed |-> rows_processed, final_df |-> final_df,
     api_calls |-> IF exchange.called THEN 1 ELSE 0, exchange |-> exchange]

\* a batch pipeline whose validation reports the rows of the rejected batch
\* as processed
process_single_batch_masking_CountInvalid(batch_df, batch_number, column_rules, svc, save_success) ==
    IF Len(batch_df) = 0
    THEN BatchResult(batch_number, FALSE, "No data in batch", 0, <<>>, NoExchange)
    ELSE IF column_rules \ ColumnSet(batch_df) # {}
    THEN BatchResult(batch_number, FALSE, "Missing columns in batch data", Len(batch_df), <<>>, NoExchange)
    ELSE With(safe_dataframe_to_records(batch_df, column_rules), LAMBDA sensitive_data_records :
         With(mask_data_raw_powerquery_format(sensitive_data_records, column_rules, svc),
              LAMBDA masking_response :
         With(masking_response.masked_records, LAMBDA masked_records :
         With(Exchange(sensitive_data_records, masking_response), LAMBDA exchange :
             IF masking_response.raised
             THEN BatchResult(batch_number, FALSE, "DCS API call failed", 0, <<>>, exchange)
             ELSE IF Len(masked_records) = 0
             THEN BatchResult(batch_number, FALSE, "DCS API returned empty masked_records", 0, <<>>, exchange)
             ELSE With(Merge(batch_df, masked_records, column_rules), LAMBDA final_df :
                 IF ~save_success
                 THEN BatchResult(batch_number, FALSE, "Data save failed", Len(batch_df), <<>>, exchange)
                 ELSE BatchResult(batch_number, TRUE, "none", Len(final_df), final_df, exchange))))))

\* process_single_batch_masking.  svc is the behaviour of the masking service
\* for this call, save_success what save_masked_data_to_snowflake returns.
\* final_df is what has been appended to the destination (empty when nothing
\* was saved), api_calls the number of masking-service calls made.
process_single_batch_masking(batch_df, batch_number, column_rules, svc, save_success) ==
    IF Len(batch_df) = 0
    THEN BatchResult(batch_number, FALSE, "No data in batch", 0, <<>>, NoExchange)
    ELSE IF column_rules \ ColumnSet(batch_df) # {}
    THEN BatchResult(batch_number, FALSE, "Missing columns in batch data", 0, <<>>, NoExchange)
    ELSE With(safe_dataframe_to_records(batch_df, column_rules), LAMBDA sensitive_data_records :
         With(mask_data_raw_powerquery_format(sensitive_data_records, column_rules, svc),
              LAMBDA masking_response :
         With(masking_response.masked_records, LAMBDA masked_records :
         With(Exchange(sensitive_data_records, masking_response), LAMBDA exchange :
             IF masking_response.raised
             THEN BatchResult(batch_number, FALSE, "DCS API call failed", 0, <<>>, exchange)
             ELSE IF Len(masked_records) = 0
             THEN BatchResult(batch_number, FALSE, "DCS API returned empty masked_records", 0, <<>>, exchange)
             ELSE With(Merge(batch_df, masked_records, column_rules), LAMBDA final_df :
                 IF ~save_success
                 THEN BatchResult(batch_number, FALSE, "Data save failed", Len(batch_df), <<>>, exchange)
                 ELSE BatchResult(batch_number, TRUE, "none", Len(final_df), final_df, exchange))))))

\* ------------------------------------------------------------------- state
VARIABLES
    selected_tables,      \* the list of tables handed to the workflow
    max_workers,          \* worker bound of the ThreadPoolExecutor
    inplace,              \* TRUE: execute_inplace_masking_workflow
    write_mode,           \* write_mode argument of execute_masking_workflow
    discovery,            \* per table: rows of get_discovery_metadata
    store,                \* per table: rows of the source (src) and destination (dst) table
    faults,               \* per table: failures the external collaborators may show
    queue,                \* work queue of the executor
    worker,               \* per worker thread: the table it runs (0 = idle)
    pc,                   \* per table: position of its coordinator
    co,                   \* per table: locals of process_single_table_masking
    future,               \* per table: the future returned by executor.submit
    table_progress,       \* shared map table -> percent
    progress_log,         \* per table: the calls of the progress callback, in order
    table_status,         \* shared map table -> status text
    run_status,           \* per table: run_status in the events log
    audit_log,            \* per table: the writes of run_status attempted, in order
    display,              \* what the polling loop last rendered
    pcMain,               \* position of the workflow (main thread)
    submitted,            \* number of tables submitted so far
    collected,            \* futures already yielded by as_completed
    results,              \* locals of the workflow
    successful_tables,
    failed_tables,
    total_rows_processed,
    workflow_result,
    plan_request,         \* arguments and environment of a call of calculate_optimal_batch_size
    plan,                 \* what that call returned
    progress_lock,        \* holder of progress_lock: nobody, the poller or the worker of a table
    updater,              \* per table: the update_progress call of its worker
    poller,               \* the UI update of the main thread: position and locals
    previous_run          \* per table: what the run before this one returned and left

vars == <<selected_tables, max_workers, inplace, write_mode, discovery, store, faults,
          queue, worker, pc, co, future, table_progress, progress_log, table_status, run_status, audit_log,
          display, pcMain, submitted, collected, results, successful_tables,
          failed_tables, total_rows_processed, workflow_result,
          plan_request, plan, progress_lock, updater, poller, previous_run>>

inputVars == <<selected_tables, max_workers, inplace, write_mode, discovery, faults>>

plannerVars == <<plan_request, plan>>

lockVars == <<progress_lock, updater, poller>>

rerunVars == <<previous_run>>

workflowVars == <<pcMain, submitted, collected, results, successful_tables,
                  failed_tables, total_rows_processed, workflow_result, display>>

Tables == {selected_tables[i] : i \in DOMAIN selected_tables}

Workers == 1..max_workers

\* ------------------------------------------------------------- environment
MaxFaultKinds == 1      \* how many kinds of failure one table run may meet

FaultKinds == {"count_raise", "escape", "ctas_fail", "plan_count_raise", "plan_meta_raise",
               "truncate_fail", "read_raise", "svc_raise", "svc_short", "svc_nocol",
               "svc_empty", "svc_long", "svc_baddate", "save_fail", "audit_fail"}

FaultSets == {S \in SUBSET FaultKinds : Cardinality(S) <= MaxFaultKinds}

DiscoveryRow(col, assigned) == [IDENTIFIED_COLUMN |-> col, ASSIGNED |-> assigned]

DiscoveryChoices ==
    { <<>>,
      <<DiscoveryRow("NAME", FALSE)>>,
      <<DiscoveryRow("ID", FALSE), DiscoveryRow("NAME", TRUE)>>,
      <<DiscoveryRow("NAME", TRUE), DiscoveryRow("DOB", TRUE)>>,
      <<DiscoveryRow("GHOST", TRUE)>> }

RowCounts == {0, 2, MaxRows}

TableConfig(d, n, stale, f) == [discovery |-> d, nrows |-> n, stale |-> stale, faults |-> f]

\* the failures the calls made on the run of a table can show: without
\* discovery metadata the coordinator only writes to the events log, without
\* an assigned algorithm it only copies, and for an empty table it stops at
\* the row count
RelevantFaults(d, n) ==
    IF Len(d) = 0 THEN {"audit_fail"}
    ELSE IF \A i \in DOMAIN d : ~d[i].ASSIGNED THEN {"ctas_fail", "audit_fail"}
    ELSE IF n = 0 THEN {"count_raise", "escape", "audit_fail"}
    ELSE FaultKinds \ {"ctas_fail"}

AllConfigs ==
    {c \in {TableConfig(d, n, stale, f) :
                d \in DiscoveryChoices, n \in RowCounts, stale \in BOOLEAN, f \in FaultSets} :
        c.faults \subseteq RelevantFaults(c.discovery, c.nrows)}

\* workloads of the runs with several tables: a table that succeeds in one
\* batch, one that has no discovery metadata, one whose coordinator raises,
\* one with two batches whose masking call may fail
PlainConfig == TableConfig(<<DiscoveryRow("NAME", TRUE)>>, 2, FALSE, {})

MultiConfigs ==
    { PlainConfig,
      TableConfig(<<>>, 2, FALSE, {}),
      TableConfig(<<DiscoveryRow("NAME", TRUE)>>, 2, FALSE, {"escape"}),
      TableConfig(<<DiscoveryRow("NAME", TRUE)>>, MaxRows, FALSE, {"svc_raise"}) }

Configs(n) == IF n = 1 THEN AllConfigs ELSE MultiConfigs

InitialLocals ==
    [column_rules |-> {}, total_rows |-> 0, optimal_batch_size |-> 0, total_batches |-> 0,
     batch_num |-> 0, successful_batches |-> 0, failed_batches |-> <<>>,
     total_rows_processed |-> 0, batch_results |-> <<>>, api_calls |-> 0, path |-> "none"]

NoResult == [table |-> 0, success |-> FALSE, error |-> "none", total_rows |-> -1,
             rows_processed |-> -1, batches_processed |-> -1, total_batches |-> -1,
             failed_batches |-> <<>>, has_failed_batches |-> FALSE, method |-> "none"]

\* no run of the table before this one
NoRun == [ran |-> FALSE, raised |-> FALSE, result |-> NoResult, store |-> [src |-> <<>>, dst |-> <<>>]]

NoWorkflowResult ==
    [returned |-> FALSE, success |-> FALSE, total_tables |-> -1, successful_tables |-> -1,
     failed_tables |-> -1, total_rows_processed |-> -1, results |-> <<>>,
     failed_table_details |-> <<>>]

WorkflowInit ==
    \E n \in 0..MaxTables, mw \in 1..MaxWorkers, ip \in BOOLEAN, wm \in {"overwrite", "append"} :
    \E cfg \in [1..n -> Configs(n)] :
        /\ (ip \/ n > 1) => wm = "overwrite"
        /\ n > 2 => Cardinality({t \in 1..n : cfg[t] # PlainConfig}) <= 1
        /\ selected_tables = [i \in 1..n |-> i]
        /\ max_workers = mw
        /\ inplace = ip
        /\ write_mode = wm
        /\ discovery = [t \in 1..n |-> cfg[t].discovery]
        /\ store = [t \in 1..n |->
                      [src |-> SourceTable(cfg[t].nrows),
                       dst |-> IF cfg[t].stale /\ ~ip THEN <<StaleRow>> ELSE <<>>]]
        /\ faults = [t \in 1..n |-> cfg[t].faults]
        /\ queue = <<>>
        /\ worker = [w \in 1..mw |-> 0]
        /\ pc = [t \in 1..n |-> "new"]
        /\ co = [t \in 1..n |-> InitialLocals]
        /\ future = [t \in 1..n |-> [state |-> "none", raised |-> FALSE, result |-> NoResult]]
        /\ table_progress = [t \in 1..n |-> 0]
        /\ progress_log = [t \in 1..n |-> <<>>]
        /\ table_status = [t \in 1..n |-> "Waiting..."]
        /\ run_status = [t \in 1..n |-> "WAITING"]
        /\ audit_log = [t \in 1..n |-> <<[status |-> "WAITING", written |-> TRUE]>>]
        /\ display = [t \in 1..n |-> <<0, "Waiting...">>]
        /\ pcMain = "submit"
        /\ submitted = 0
        /\ collected = {}
        /\ results = <<>>
        /\ successful_tables = 0
        /\ failed_tables = <<>>
        /\ total_rows_processed = 0
        /\ workflow_result = NoWorkflowResult
        /\ previous_run = [t \in 1..n |-> NoRun]

\* ------------------------------------------------- planner, called directly
MaxPlanColumns == 3     \* largest number of sensitive columns of a planner call

\* max_batch_size_mb * 1024 * 1024 for the default 1.8 and for 0.01
DefaultCeilingBytes == 1887436

SmallCeilingBytes == 10485

PlanCeilings == {ScaledCeilingBytes, SmallCeilingBytes, DefaultCeilingBytes}

PlanRowCounts == {0, 1, 9, 10, 11, 1500, 6000, 10000}

\* INFORMATION_SCHEMA.COLUMNS row of a sensitive column; the columns of one
\* call are all of the same type and size
PlanColumnTypes ==
    { [DATA_TYPE |-> "VARCHAR", CHARACTER_MAXIMUM_LENGTH |-> 100,  NUMERIC_PRECISION |-> 0],
      [DATA_TYPE |-> "VARCHAR", CHARACTER_MAXIMUM_LENGTH |-> 5000, NUMERIC_PRECISION |-> 0],
      [DATA_TYPE |-> "NUMBER",  CHARACTER_MAXIMUM_LENGTH |-> 0,    NUMERIC_PRECISION |-> 10],
      [DATA_TYPE |-> "VARIANT", CHARACTER_MAXIMUM_LENGTH |-> 0,    NUMERIC_PRECISION |-> 0] }

\* count: the COUNT(*) query returns ("ok") or raises; meta: the metadata
\* query returns a row per column ("rows"), no row ("norows"), or raises
PlanRequests ==
    [count : {"ok", "raise"}, total_rows : PlanRowCounts, columns : 0..MaxPlanColumns,
     column : PlanColumnTypes, meta : {"rows", "norows", "raise"}, ceiling : PlanCeilings]

NoPlanRequest ==
    [count |-> "none", total_rows |-> 0, columns |-> 0,
     column |-> [DATA_TYPE |-> "NONE", CHARACTER_MAXIMUM_LENGTH |-> 0, NUMERIC_PRECISION |-> 0],
     meta |-> "none", ceiling |-> 0]

NoPlan == [batch_size |-> 0, total_rows |-> 0, total_batches |-> 0, estimated_bytes_per_row |-> 0,
           path |-> "none", error |-> FALSE, raised |-> FALSE]

\* the plan calculate_optimal_batch_size returns for request req with n columns
PlanFor(req, n) ==
    calculate_optimal_batch_size(req.count = "ok", req.total_rows, 1..n, req.meta # "raise",
        IF req.meta = "rows" THEN [i \in 1..n |-> req.column] ELSE <<>>, req.ceiling)

\* holders of progress_lock other than the worker of table t, which is t
LockFree == 0

LockPoller == -1

\* nobody holds progress_lock, no update_progress call and no UI update is
\* under way
LockInit ==
    /\ progress_lock = LockFree
    /\ updater = [t \in Tables |-> [pc |-> "idle", call |-> 0]]
    /\ poller = [pc |-> "idle", i |-> 0, percent |-> 0]

Init ==
    /\ WorkflowInit
    /\ plan_request = NoPlanRequest
    /\ plan = NoPlan
    /\ LockInit

PlannerInit ==
    /\ WorkflowInit
    /\ selected_tables = <<>>
    /\ max_workers = 1
    /\ ~inplace
    /\ write_mode = "overwrite"
    /\ plan_request \in PlanRequests
    /\ plan = NoPlan
    /\ LockInit

\* one call of calculate_optimal_batch_size
PlannerCall ==
    /\ plan_request # NoPlanRequest
    /\ plan.path = "none"
    /\ plan' = PlanFor(plan_request, plan_request.columns)
    /\ UNCHANGED <<inputVars, lockVars, rerunVars, plan_request, store, queue, worker, pc, co, future, table_progress,
                   progress_log, table_status, run_status, audit_log, display, pcMain, submitted, collected, results,
                   successful_tables, failed_tables, total_rows_processed, workflow_result>>

PlannerSpec == PlannerInit /\ [][PlannerCall]_vars

\* ------------------------------------------------------ table coordinator
\* outcomes an external call may have for table t: success, and the failure
\* named fault when the environment of t shows it
Ok(t, fault) == {TRUE} \cup (IF fault \in faults[t] THEN {FALSE} ELSE {})

CountOutcomes(t) ==
    {"ok"} \cup (IF "count_raise" \in faults[t] THEN {"raise"} ELSE {})
           \cup (IF "escape" \in faults[t] THEN {"escape"} ELSE {})

SvcFault(k) ==
    CASE k = "raise" -> "svc_raise" [] k = "short" -> "svc_short" [] k = "nocol" -> "svc_nocol"
      [] k = "empty" -> "svc_empty" [] k = "long" -> "svc_long" [] OTHER -> "svc_baddate"

SvcOutcomes(t) ==
    {"ok"} \cup {k \in {"raise", "short", "nocol", "empty", "long", "baddate"} :
                    SvcFault(k) \in faults[t]}

\* dest_db.dest_schema.table_name: the source table itself in an in-place run
DestKey == IF inplace THEN "src" ELSE "dst"

\* rules built from every classified column, assigned or not
ColumnRules_IgnoreAssigned(discovery_df) ==
    {discovery_df[i].IDENTIFIED_COLUMN : i \in DOMAIN discovery_df}

\* column_rules: the columns with a non-empty ASSIGNED_ALGORITHM
ColumnRules(discovery_df) ==
    {discovery_df[i].IDENTIFIED_COLUMN : i \in {h \in DOMAIN discovery_df : discovery_df[h].ASSIGNED}}

\* rows INFORMATION_SCHEMA.COLUMNS returns for the sensitive columns
RECURSIVE MetadataRows(_, _)
MetadataRows(cols, sensitive_columns) ==
    IF Len(cols) = 0 THEN <<>>
    ELSE IF Head(cols) \in sensitive_columns
         THEN <<ColumnMetadata(Head(cols))>> \o MetadataRows(Tail(cols), sensitive_columns)
         ELSE MetadataRows(Tail(cols), sensitive_columns)

Failure(t, error) == [NoResult EXCEPT !.table = t, !.error = error]

\* a batch count that drops the last, partial window
CeilDiv_Floor(a, b) == a \div b

\* (a + b - 1) // b
CeilDiv(a, b) == (a + b - 1) \div b

\* What one pass through process_single_table_masking up to the batch loop
\* does: done = the function returned (or raised), otherwise the batch loop
\* is entered with the locals given.
StartStep(done, raised, result, pct, status, audit, locals, rows) ==
    [done |-> done, raised |-> raised, result |-> result, pct |-> pct, status |-> status,
     audit |-> audit, locals |-> locals, store |-> rows, emits |-> <<>>]

\* progress_callback(table_name, percent, ...) at the given line of the source
Emit(percent, line) == [percent |-> percent, line |-> line]

\* the step o, with the calls of progress_callback it makes
Emitting(o, emits) == [o EXCEPT !.emits = emits]

\* a copy that inserts into the destination it finds
CtasCopy_Append(rows) == [rows EXCEPT ![DestKey] = @ \o rows.src]

\* CREATE OR REPLACE TABLE dest AS SELECT * FROM source
CtasCopy(rows) == [rows EXCEPT ![DestKey] = rows.src]

StartOutcome(t, count, ctas_ok, plan_count_ok, plan_meta_ok, truncate_ok) ==
    LET discovery_df == discovery[t]
        column_rules == ColumnRules(discovery_df)
        src == store[t].src
        total_rows == Len(src)
        batch_calc == calculate_optimal_batch_size(plan_count_ok, total_rows, column_rules,
                          plan_meta_ok, MetadataRows(TableColumns, column_rules), ScaledCeilingBytes)
        optimal_batch_size == batch_calc.batch_size
        total_batches == CeilDiv(total_rows, optimal_batch_size)
        cleared == IF write_mode = "overwrite" /\ truncate_ok
                   THEN [store[t] EXCEPT ![DestKey] = <<>>] ELSE store[t]
    IN  IF Len(discovery_df) = 0
        THEN Emitting(StartStep(TRUE, FALSE, Failure(t, "No discovery metadata found"),
                                100, "No discovery metadata found", "FAILED", co[t], store[t]),
                      <<Emit(0, 753), Emit(100, 764)>>)
        ELSE IF column_rules = {}
        THEN IF ctas_ok
             THEN LET copied == CtasCopy(store[t])
                      rows_copied == Len(copied[DestKey])
                  IN  Emitting(StartStep(TRUE, FALSE,
                          [NoResult EXCEPT !.table = t, !.success = TRUE, !.total_rows = rows_copied,
                                           !.rows_processed = rows_copied, !.method = "CTAS"],
                          100, "Completed", "COMPLETED", [co[t] EXCEPT !.path = "CTAS"], copied),
                          <<Emit(0, 753), Emit(50, 814), Emit(100, 837)>>)
             ELSE Emitting(StartStep(TRUE, FALSE, [Failure(t, "CTAS failed") EXCEPT !.method = "CTAS"],
                            100, "CTAS failed", "FAILED", [co[t] EXCEPT !.path = "CTAS"], store[t]),
                           <<Emit(0, 753), Emit(50, 814), Emit(100, 856)>>)
        ELSE IF count # "ok"
        THEN Emitting(StartStep(TRUE, count = "escape", Failure(t, "Unexpected error"),
                       100, "Error", "FAILED", [co[t] EXCEPT !.column_rules = column_rules], store[t]),
                      <<Emit(0, 753), Emit(10, 873), Emit(100, 1046)>>)
        ELSE IF total_rows = 0
        THEN Emitting(StartStep(TRUE, FALSE, Failure(t, "No data in table"),
                       100, "No data found in table", "COMPLETED",
                       [co[t] EXCEPT !.column_rules = column_rules], store[t]),
                      <<Emit(0, 753), Emit(10, 873), Emit(100, 886)>>)
        ELSE Emitting(StartStep(FALSE, FALSE, NoResult, 20, "Processing batches", "IN PROGRESS",
                       [co[t] EXCEPT !.column_rules = column_rules, !.total_rows = total_rows,
                                     !.optimal_batch_size = optimal_batch_size,
                                     !.total_batches = total_batches, !.batch_num = 1,
                                     !.path = "batches"],
                       cleared),
                      <<Emit(0, 753), Emit(10, 873), Emit(20, 917)>>)

\* the run_status values step o of the coordinator of table t sends to the
\* events log: IN PROGRESS on entry, COMPLETED or FAILED before it returns;
\* none without a run_id, which the in-place wrapper does not pass on
AuditAttempts(t, o) ==
    IF inplace THEN <<>>
    ELSE (IF pc[t] = "start" THEN <<"IN PROGRESS">> ELSE <<>>) \o
         (IF o.done THEN <<o.audit>> ELSE <<>>)

\* a log call whose exception reaches the coordinator
Audited_Propagating(o, audit_ok) ==
    IF audit_ok THEN o ELSE [o EXCEPT !.done = TRUE, !.raised = TRUE]

\* log_masking_job_in_progress / log_masking_job_completion catch the
\* exception of a failed write and report a warning: step o goes on as it is
Audited(o, audit_ok) == o

\* the future of table t after step o of its coordinator
FutureAfter(t, o) ==
    IF o.done
    THEN [state |-> "finished", raised |-> o.raised,
          result |-> IF o.raised THEN NoResult ELSE o.result]
    ELSE future[t]

\* the worker that runs table t hands the outcome to the future and is free
\* again; process_single_table_inplace_masking adds its own progress report
Leave(t, planned) ==
    \E audit_ok \in Ok(t, "audit_fail") : \E o \in {Audited(planned, audit_ok)} :
    /\ pc' = [pc EXCEPT ![t] = IF o.done THEN "done" ELSE "batches"]
    /\ co' = [co EXCEPT ![t] = o.locals]
    /\ store' = [store EXCEPT ![t] = o.store]
    /\ future' = [future EXCEPT ![t] = FutureAfter(t, o)]
    /\ worker' = [w \in DOMAIN worker |-> IF o.done /\ worker[w] = t THEN 0 ELSE worker[w]]
    /\ LET attempts == AuditAttempts(t, o) IN
         /\ run_status' = [run_status EXCEPT ![t] =
                              IF audit_ok /\ Len(attempts) > 0 THEN attempts[Len(attempts)] ELSE @]
         /\ audit_log' = [audit_log EXCEPT ![t] =
                              @ \o [i \in DOMAIN attempts |->
                                      [status |-> attempts[i], written |-> audit_ok]]]
    /\ table_progress' = [table_progress EXCEPT ![t] =
                            IF ~inplace THEN o.pct
                            ELSE IF o.done /\ ~o.raised THEN (IF o.result.success THEN 100 ELSE 0)
                            ELSE @]
    /\ progress_log' = [progress_log EXCEPT ![t] =
                            IF ~inplace THEN @ \o o.emits
                            ELSE IF o.done /\ ~o.raised
                                 THEN Append(@, IF o.result.success THEN Emit(100, 1686)
                                                ELSE Emit(0, 1688))
                            ELSE @]
    /\ table_status' = [table_status EXCEPT ![t] =
                            IF ~inplace THEN o.status
                            ELSE IF o.done /\ ~o.raised
                                 THEN (IF o.result.success THEN "Completed in-place masking" ELSE "Failed")
                            ELSE @]

\* process_single_table_masking from its entry to the first batch
CoordStart(t) ==
    /\ pc[t] = "start"
    /\ \E count \in CountOutcomes(t), ctas_ok \in Ok(t, "ctas_fail"),
          plan_count_ok \in Ok(t, "plan_count_raise"), plan_meta_ok \in Ok(t, "plan_meta_raise"),
          truncate_ok \in Ok(t, "truncate_fail") :
            \E o \in {StartOutcome(t, count, ctas_ok, plan_count_ok, plan_meta_ok, truncate_ok)} : Leave(t, o)
    /\ UNCHANGED <<inputVars, plannerVars, lockVars, rerunVars, queue, workflowVars>>

\* a loop that submits a failed batch again
NextBatch_RetryFailed(batch_num, success) == IF success THEN batch_num + 1 ELSE batch_num

\* for batch_num in range(1, total_batches + 1): on to the next batch,
\* whatever became of this one
NextBatch(batch_num, success) == batch_num + 1

\* a loop that adds the rows every batch reports
RowsAfter_CountAll(rows_so_far, batch_result) ==
    rows_so_far + batch_result.rows_processed

\* if batch_result['success']: total_rows_processed += batch_result['rows_processed']
RowsAfter(rows_so_far, batch_result) ==
    IF batch_result.success THEN rows_so_far + batch_result.rows_processed
    ELSE rows_so_far

\* a loop that counts its windows from one
WindowOffset_FromOne(batch_num, optimal_batch_size) == batch_num * optimal_batch_size

\* offset of the read window of batch batch_num
WindowOffset(batch_num, optimal_batch_size) == (batch_num - 1) * optimal_batch_size

\* SELECT * FROM source LIMIT limit OFFSET offset
ReadWindow(rows, offset, limit) == SubSeq(rows, offset + 1, Min(offset + limit, Len(rows)))

BatchRecord(batch_number, outcome, error, rows_processed, offset, final_df, batch_df, exchange) ==
    [batch_number |-> batch_number, outcome |-> outcome, error |-> error,
     rows_processed |-> rows_processed, offset |-> offset, final_df |-> final_df,
     batch_df |-> batch_df, exchange |-> exchange]

\* one iteration of the batch loop of process_single_table_masking
BatchOutcome(t, read_ok, svc, save_success) ==
    LET l == co[t]
        batch_num == l.batch_num
        offset == WindowOffset(batch_num, l.optimal_batch_size)
        next == [l EXCEPT !.batch_num = batch_num + 1]
    IN  With(ReadWindow(store[t].src, offset, l.optimal_batch_size), LAMBDA batch_df :
        With(process_single_batch_masking(batch_df, batch_num, l.column_rules, svc, save_success),
             LAMBDA batch_result :
        IF ~read_ok
        THEN StartStep(FALSE, FALSE, NoResult, table_progress[t], table_status[t], run_status[t],
                 [next EXCEPT !.failed_batches = Append(@, [batch_number |-> batch_num,
                                                            error |-> "Data loading failed"]),
                              !.batch_results = Append(@, BatchRecord(batch_num, "load_failed",
                                                   "Data loading failed", 0, offset, <<>>, <<>>, NoExchange))],
                 store[t])
        ELSE IF Len(batch_df) = 0
        THEN StartStep(FALSE, FALSE, NoResult, table_progress[t], table_status[t], run_status[t],
                 [next EXCEPT !.batch_results = Append(@, BatchRecord(batch_num, "skipped",
                                                   "none", 0, offset, <<>>, <<>>, NoExchange))],
                 store[t])
        ELSE Emitting(StartStep(FALSE, FALSE, NoResult,
                 20 + (batch_num * 70) \div l.total_batches, "Batch processed", run_status[t],
                 [next EXCEPT
                    !.batch_num = NextBatch(batch_num, batch_result.success),
                    !.successful_batches = IF batch_result.success THEN @ + 1 ELSE @,
                    !.total_rows_processed = RowsAfter(@, batch_result),
                    !.failed_batches = IF batch_result.success THEN @
                                       ELSE Append(@, [batch_number |-> batch_num,
                                                       error |-> batch_result.error]),
                    !.api_calls = @ + batch_result.api_calls,
                    !.batch_results = Append(@, BatchRecord(batch_num,
                                          IF batch_result.success THEN "success" ELSE "failed",
                                          batch_result.error, batch_result.rows_processed, offset,
                                          batch_result.final_df, batch_df, batch_result.exchange))],
                 [store[t] EXCEPT ![DestKey] = @ \o batch_result.final_df]),
                 <<Emit(20 + (batch_num * 70) \div l.total_batches, 993)>>)))

CoordBatch(t) ==
    /\ pc[t] = "batches"
    /\ co[t].batch_num <= co[t].total_batches
    /\ \E read_ok \in Ok(t, "read_raise"), svc \in SvcOutcomes(t), save_success \in Ok(t, "save_fail") :
            \E o \in {BatchOutcome(t, read_ok, svc, save_success)} : Leave(t, o)
    /\ UNCHANGED <<inputVars, plannerVars, lockVars, rerunVars, queue, workflowVars>>

\* the end of process_single_table_masking, after the batch loop
FinishOutcome(t) ==
    LET l == co[t]
        base == [NoResult EXCEPT !.table = t, !.total_rows = l.total_rows,
                                 !.rows_processed = l.total_rows_processed,
                                 !.batches_processed = l.successful_batches,
                                 !.total_batches = l.total_batches]
    IN  IF l.successful_batches = l.total_batches
        THEN Emitting(StartStep(TRUE, FALSE, [base EXCEPT !.success = TRUE],
                                100, "Completed", "COMPLETED", l, store[t]),
                      <<Emit(100, 1003)>>)
        ELSE Emitting(StartStep(TRUE, FALSE,
                       [base EXCEPT !.error = "batches failed", !.failed_batches = l.failed_batches,
                                    !.has_failed_batches = TRUE],
                       100, "Failed", "FAILED", l, store[t]),
                      <<Emit(100, 1021)>>)

\* a batch loop that a failed batch may end
CoordFinish_AbortOnFailure(t) ==
    /\ pc[t] = "batches"
    /\ co[t].batch_num > co[t].total_batches \/ Len(co[t].failed_batches) > 0
    /\ \E o \in {FinishOutcome(t)} : Leave(t, o)
    /\ UNCHANGED <<inputVars, plannerVars, lockVars, rerunVars, queue, workflowVars>>

CoordFinish(t) ==
    /\ pc[t] = "batches"
    /\ co[t].batch_num > co[t].total_batches
    /\ \E o \in {FinishOutcome(t)} : Leave(t, o)
    /\ UNCHANGED <<inputVars, plannerVars, lockVars, rerunVars, queue, workflowVars>>

\* the steps the coordinator of table t can take next, over everything its
\* collaborators other than the events log may do
CoordOutcomes(t) ==
    IF pc[t] = "start"
    THEN {StartOutcome(t, count, ctas_ok, plan_count_ok, plan_meta_ok, truncate_ok) :
             count \in CountOutcomes(t), ctas_ok \in Ok(t, "ctas_fail"),
             plan_count_ok \in Ok(t, "plan_count_raise"), plan_meta_ok \in Ok(t, "plan_meta_raise"),
             truncate_ok \in Ok(t, "truncate_fail")}
    ELSE IF pc[t] = "batches" /\ co[t].batch_num <= co[t].total_batches
    THEN {BatchOutcome(t, read_ok, svc, save_success) :
             read_ok \in Ok(t, "read_raise"), svc \in SvcOutcomes(t), save_success \in Ok(t, "save_fail")}
    ELSE IF pc[t] = "batches" THEN {FinishOutcome(t)}
    ELSE {}

\* ---------------------------------------------------------------- workflow
coordVars == <<store, pc, co, future, worker, table_progress, progress_log, table_status, run_status, audit_log>>

\* executor.submit for the next table of selected_tables
Submit ==
    /\ pcMain = "submit"
    /\ submitted < Len(selected_tables)
    /\ LET t == selected_tables[submitted + 1] IN
        /\ queue' = Append(queue, t)
        /\ pc' = [pc EXCEPT ![t] = "queued"]
        /\ future' = [future EXCEPT ![t].state = "pending"]
    /\ submitted' = submitted + 1
    /\ UNCHANGED <<inputVars, plannerVars, lockVars, rerunVars, store, co, worker, table_progress, progress_log, table_status, run_status, audit_log,
                   display, pcMain, collected, results, successful_tables, failed_tables,
                   total_rows_processed, workflow_result>>

\* the submit loop is over: the polling loop starts
SubmitDone ==
    /\ pcMain = "submit"
    /\ submitted = Len(selected_tables)
    /\ pcMain' = "poll"
    /\ UNCHANGED <<inputVars, plannerVars, lockVars, rerunVars, coordVars, queue, display, submitted, collected, results,
                   successful_tables, failed_tables, total_rows_processed, workflow_result>>

\* a pool whose threads take work without being idle
WorkerTake_Greedy(w) ==
    /\ Len(queue) > 0
    /\ LET t == Head(queue) IN
        /\ worker' = [worker EXCEPT ![w] = t]
        /\ pc' = [pc EXCEPT ![t] = "start"]
        /\ future' = [future EXCEPT ![t].state = "running"]
    /\ queue' = Tail(queue)
    /\ UNCHANGED <<inputVars, plannerVars, lockVars, rerunVars, store, co, table_progress, progress_log, table_status, run_status, audit_log, workflowVars>>

\* a worker thread of the pool takes the next work item and starts the
\* coordinator; idle threads are interchangeable, the first one takes it
WorkerTake(w) ==
    /\ worker[w] = 0
    /\ \A v \in 1..(w - 1) : worker[v] # 0
    /\ Len(queue) > 0
    /\ LET t == Head(queue) IN
        /\ worker' = [worker EXCEPT ![w] = t]
        /\ pc' = [pc EXCEPT ![t] = "start"]
        /\ future' = [future EXCEPT ![t].state = "running"]
    /\ queue' = Tail(queue)
    /\ UNCHANGED <<inputVars, plannerVars, lockVars, rerunVars, store, co, table_progress, progress_log, table_status, run_status, audit_log, workflowVars>>

AllDone == \A t \in Tables : future[t].state = "finished"

\* one round of the polling loop: render the progress maps, or leave the loop
Poll ==
    /\ pcMain = "poll"
    /\ IF AllDone
       THEN pcMain' = "collect" /\ UNCHANGED display
       ELSE /\ display' = [t \in Tables |-> <<table_progress[t], table_status[t]>>]
            /\ UNCHANGED pcMain
    /\ UNCHANGED <<inputVars, plannerVars, lockVars, rerunVars, coordVars, queue, submitted, collected, results,
                   successful_tables, failed_tables, total_rows_processed, workflow_result>>

\* an as_completed loop whose except branch forgets results.append
Collect_DropRaised(t) ==
    /\ pcMain = "collect"
    /\ t \in Tables \ collected
    /\ future[t].state = "finished"
    /\ collected' = collected \cup {t}
    /\ IF future[t].raised
       THEN /\ failed_tables' = Append(failed_tables,
                                   [table |-> t, error |-> "Exception during parallel processing"])
            /\ UNCHANGED <<results, successful_tables, total_rows_processed>>
       ELSE LET result == future[t].result IN
            /\ results' = Append(results, result)
            /\ IF result.success
               THEN /\ successful_tables' = successful_tables + 1
                    /\ total_rows_processed' = total_rows_processed +
                           (IF result.rows_processed >= 0 THEN result.rows_processed ELSE 0)
                    /\ UNCHANGED failed_tables
               ELSE /\ failed_tables' = Append(failed_tables, [table |-> t, error |-> result.error])
                    /\ UNCHANGED <<successful_tables, total_rows_processed>>
    /\ UNCHANGED <<inputVars, plannerVars, lockVars, rerunVars, coordVars, queue, display, pcMain, submitted, workflow_result>>

\* the body of the as_completed loop for the future of table t
Collect(t) ==
    /\ pcMain = "collect"
    /\ t \in Tables \ collected
    /\ future[t].state = "finished"
    /\ collected' = collected \cup {t}
    /\ IF future[t].raised
       THEN /\ failed_tables' = Append(failed_tables,
                                   [table |-> t, error |-> "Exception during parallel processing"])
            /\ results' = Append(results, Failure(t, "Exception during parallel processing"))
            /\ UNCHANGED <<successful_tables, total_rows_processed>>
       ELSE LET result == future[t].result IN
            /\ results' = Append(results, result)
            /\ IF result.success
               THEN /\ successful_tables' = successful_tables + 1
                    /\ total_rows_processed' = total_rows_processed +
                           (IF result.rows_processed >= 0 THEN result.rows_processed ELSE 0)
                    /\ UNCHANGED failed_tables
               ELSE /\ failed_tables' = Append(failed_tables, [table |-> t, error |-> result.error])
                    /\ UNCHANGED <<successful_tables, total_rows_processed>>
    /\ UNCHANGED <<inputVars, plannerVars, lockVars, rerunVars, coordVars, queue, display, pcMain, submitted, workflow_result>>

\* a summary that reports success as soon as one table succeeded
WorkflowReturn_AnySuccess ==
    /\ pcMain = "collect"
    /\ collected = Tables
    /\ pcMain' = "done"
    /\ display' = [t \in Tables |-> <<table_progress[t], table_status[t]>>]
    /\ workflow_result' =
          [returned |-> TRUE,
           success |-> successful_tables > 0,
           total_tables |-> Len(selected_tables),
           successful_tables |-> successful_tables,
           failed_tables |-> Len(failed_tables),
           total_rows_processed |-> total_rows_processed,
           results |-> results,
           failed_table_details |-> failed_tables]
    /\ UNCHANGED <<inputVars, plannerVars, lockVars, rerunVars, coordVars, queue, submitted, collected, results,
                   successful_tables, failed_tables, total_rows_processed>>

\* after the last future: final rendering and the returned summary
WorkflowReturn ==
    /\ pcMain = "collect"
    /\ collected = Tables
    /\ pcMain' = "done"
    /\ display' = [t \in Tables |-> <<table_progress[t], table_status[t]>>]
    /\ workflow_result' =
          [returned |-> TRUE,
           success |-> Len(failed_tables) = 0,
           total_tables |-> Len(selected_tables),
           successful_tables |-> successful_tables,
           failed_tables |-> Len(failed_tables),
           total_rows_processed |-> total_rows_processed,
           results |-> results,
           failed_table_details |-> failed_tables]
    /\ UNCHANGED <<inputVars, plannerVars, lockVars, rerunVars, coordVars, queue, submitted, collected, results,
                   successful_tables, failed_tables, total_rows_processed>>

Next ==
    \/ Submit
    \/ SubmitDone
    \/ \E w \in Workers : WorkerTake(w)
    \/ \E t \in Tables : CoordStart(t)
    \/ \E t \in Tables : CoordBatch(t)
    \/ \E t \in Tables : CoordFinish(t)
    \/ Poll
    \/ \E t \in Tables : Collect(t)
    \/ WorkflowReturn

Spec == Init /\ [][Next]_vars

\* the runs the liveness properties are checked on: at most one table of a run
\* departs from the plain one-batch table, and the runs of more than two
\* tables are those of execute_masking_workflow
LiveInit ==
    /\ Init
    /\ ~inplace => write_mode = "overwrite"
    /\ Len(selected_tables) > 2 => ~inplace
    /\ \A t \in Tables :
          TableConfig(discovery[t], Len(store[t].src), FALSE, faults[t]) \in MultiConfigs
    /\ Cardinality({t \in Tables :
          TableConfig(discovery[t], Len(store[t].src), FALSE, faults[t]) # PlainConfig}) <= 1
    /\ \A t \in Tables : store[t].dst = <<>>

\* every thread that can take a step eventually takes it
FairSpec == LiveInit /\ [][Next]_vars /\ WF_vars(Next)

\* ------------------------------------------------- the fast copy, run twice
\* runs of one selection whose tables have discovery metadata and no column
\* with an assigned algorithm
CopyInit ==
    /\ Init
    /\ Len(selected_tables) >= 1
    /\ \A t \in Tables : Len(discovery[t]) > 0 /\ ColumnRules(discovery[t]) = {}

\* the selection is run a second time: the tables are as the first run left
\* them, the runs are registered anew and everything else starts over
Rerun ==
    /\ Len(selected_tables) >= 1
    /\ \A t \in Tables : pc[t] = "done" /\ ~previous_run[t].ran
    /\ previous_run' = [t \in Tables |->
                           [ran |-> TRUE, raised |-> future[t].raised,
                            result |-> future[t].result, store |-> store[t]]]
    /\ queue' = <<>>
    /\ worker' = [w \in Workers |-> 0]
    /\ pc' = [t \in Tables |-> "new"]
    /\ co' = [t \in Tables |-> InitialLocals]
    /\ future' = [t \in Tables |-> [state |-> "none", raised |-> FALSE, result |-> NoResult]]
    /\ table_progress' = [t \in Tables |-> 0]
    /\ progress_log' = [t \in Tables |-> <<>>]
    /\ table_status' = [t \in Tables |-> "Waiting..."]
    /\ run_status' = [t \in Tables |-> "WAITING"]
    /\ audit_log' = [t \in Tables |-> <<[status |-> "WAITING", written |-> TRUE]>>]
    /\ display' = [t \in Tables |-> <<0, "Waiting...">>]
    /\ pcMain' = "submit"
    /\ submitted' = 0
    /\ collected' = {}
    /\ results' = <<>>
    /\ successful_tables' = 0
    /\ failed_tables' = <<>>
    /\ total_rows_processed' = 0
    /\ workflow_result' = NoWorkflowResult
    /\ UNCHANGED <<inputVars, plannerVars, lockVars, store>>

CopyNext ==
    \/ Submit
    \/ \E w \in Workers : WorkerTake(w)
    \/ \E t \in Tables : CoordStart(t)
    \/ Rerun

CopySpec == CopyInit /\ [][CopyNext]_vars

\* ------------------------------------------- progress maps and their lock
MaxUpdates == 3     \* update_progress calls one table run makes

\* (percent, status) arguments of the calls a coordinator makes, in order
AllCalls ==
    << <<0, "Loading metadata...">>, <<10, "Loading columns to mask...">>,
       <<20, "Processing batches...">>, <<55, "Batch processed">>, <<90, "Batch processed">>,
       <<100, "Completed">> >>

ProgressCalls == SubSeq(AllCalls, 1, Min(MaxUpdates, Len(AllCalls)))

InitialProgress == <<0, "Waiting...">>

\* what the progress lock leaves alone
progressFrame ==
    <<inputVars, plannerVars, rerunVars, store, queue, worker, pc, co, future, progress_log, run_status, audit_log,
      pcMain, submitted, collected, results, successful_tables, failed_tables,
      total_rows_processed, workflow_result>>

\* the workers of all tables run at once; the maps are as the workflow
\* initialises them
ProgressInit ==
    /\ WorkflowInit
    /\ Len(selected_tables) >= 1
    /\ max_workers = Len(selected_tables)
    /\ ~inplace
    /\ write_mode = "overwrite"
    /\ \A t \in Tables : /\ discovery[t] = PlainConfig.discovery
                         /\ faults[t] = PlainConfig.faults
                         /\ Len(store[t].src) = PlainConfig.nrows
                         /\ store[t].dst = <<>>
    /\ plan_request = NoPlanRequest
    /\ plan = NoPlan
    /\ LockInit

\* an update_progress that does not take the lock
UpdateAcquire_NoLock(t) ==
    /\ updater[t].pc = "idle"
    /\ updater[t].call < Len(ProgressCalls)
    /\ updater' = [updater EXCEPT ![t] = [pc |-> "locked", call |-> @.call + 1]]
    /\ UNCHANGED <<progress_lock, poller, table_progress, table_status, display, progressFrame>>

\* update_progress: with progress_lock
UpdateAcquire(t) ==
    /\ updater[t].pc = "idle"
    /\ updater[t].call < Len(ProgressCalls)
    /\ progress_lock = LockFree
    /\ progress_lock' = t
    /\ updater' = [updater EXCEPT ![t] = [pc |-> "locked", call |-> @.call + 1]]
    /\ UNCHANGED <<poller, table_progress, table_status, display, progressFrame>>

\* update_progress: table_progress[table_name] = percent
UpdateWritePercent(t) ==
    /\ updater[t].pc = "locked"
    /\ table_progress' = [table_progress EXCEPT ![t] = ProgressCalls[updater[t].call][1]]
    /\ updater' = [updater EXCEPT ![t].pc = "percent"]
    /\ UNCHANGED <<progress_lock, poller, table_status, display, progressFrame>>

\* update_progress: table_status[table_name] = status, and the lock is released
UpdateWriteStatus(t) ==
    /\ updater[t].pc = "percent"
    /\ table_status' = [table_status EXCEPT ![t] = ProgressCalls[updater[t].call][2]]
    /\ updater' = [updater EXCEPT ![t].pc = "idle"]
    /\ progress_lock' = IF progress_lock = t THEN LockFree ELSE progress_lock
    /\ UNCHANGED <<poller, table_progress, display, progressFrame>>

\* the UI update of the polling loop and the final one: with progress_lock
PollAcquire ==
    /\ poller.pc = "idle"
    /\ progress_lock = LockFree
    /\ progress_lock' = LockPoller
    /\ poller' = [pc |-> "percent", i |-> 1, percent |-> 0]
    /\ UNCHANGED <<updater, table_progress, table_status, display, progressFrame>>

\* percent = table_progress[table_name]
PollReadPercent ==
    /\ poller.pc = "percent"
    /\ poller' = [poller EXCEPT !.pc = "status", !.percent = table_progress[selected_tables[poller.i]]]
    /\ UNCHANGED <<progress_lock, updater, table_progress, table_status, display, progressFrame>>

\* a UI update that keeps the lock when it is through
PollReadStatus_HoldLock ==
    /\ poller.pc = "status"
    /\ LET t == selected_tables[poller.i] IN
           display' = [display EXCEPT ![t] = <<poller.percent, table_status[t]>>]
    /\ IF poller.i < Len(selected_tables)
       THEN poller' = [poller EXCEPT !.pc = "percent", !.i = @ + 1]
       ELSE poller' = [pc |-> "idle", i |-> 0, percent |-> 0]
    /\ UNCHANGED <<progress_lock, updater, table_progress, table_status, progressFrame>>

\* status = table_status[table_name]; the pair is rendered; after the last
\* table the lock is released
PollReadStatus ==
    /\ poller.pc = "status"
    /\ LET t == selected_tables[poller.i] IN
           display' = [display EXCEPT ![t] = <<poller.percent, table_status[t]>>]
    /\ IF poller.i < Len(selected_tables)
       THEN /\ poller' = [poller EXCEPT !.pc = "percent", !.i = @ + 1]
            /\ UNCHANGED progress_lock
       ELSE /\ poller' = [pc |-> "idle", i |-> 0, percent |-> 0]
            /\ progress_lock' = LockFree
    /\ UNCHANGED <<updater, table_progress, table_status, progressFrame>>

ProgressNext ==
    \/ \E t \in Tables : UpdateAcquire(t)
    \/ \E t \in Tables : UpdateWritePercent(t)
    \/ \E t \in Tables : UpdateWriteStatus(t)
    \/ PollAcquire
    \/ PollReadPercent
    \/ PollReadStatus

ProgressSpec == ProgressInit /\ [][ProgressNext]_vars

\* ------------------------------------ the workflow, its threads and the lock
\* runs of plain tables: every external call returns
TerminationInit ==
    /\ Init
    /\ ~inplace
    /\ write_mode = "overwrite"
    /\ \A t \in Tables : /\ discovery[t] = PlainConfig.discovery
                         /\ faults[t] = PlainConfig.faults
                         /\ Len(store[t].src) = PlainConfig.nrows
                         /\ store[t].dst = <<>>

\* the coordinator of a running table calls update_progress
RunUpdateAcquire(t) ==
    /\ pc[t] = "start"
    /\ UpdateAcquire(t)

\* the coordinator of table t has made its last update_progress call and
\* returns: the future is done and the worker thread is free
RunReturn(t) ==
    /\ pc[t] = "start"
    /\ updater[t].pc = "idle"
    /\ updater[t].call = Len(ProgressCalls)
    /\ pc' = [pc EXCEPT ![t] = "done"]
    /\ future' = [future EXCEPT ![t] =
                     [state |-> "finished", raised |-> FALSE,
                      result |-> [NoResult EXCEPT !.table = t, !.success = TRUE]]]
    /\ worker' = [w \in DOMAIN worker |-> IF worker[w] = t THEN 0 ELSE worker[w]]
    /\ UNCHANGED <<inputVars, plannerVars, lockVars, rerunVars, store, co, table_progress, progress_log,
                   table_status, run_status, audit_log, queue, workflowVars>>

\* while any(not future.done() ...): a future is not done, the body is entered
PollEnter ==
    /\ pcMain = "poll"
    /\ poller.pc = "idle"
    /\ ~AllDone
    /\ poller' = [poller EXCEPT !.pc = "waiting"]
    /\ UNCHANGED <<progress_lock, updater, table_progress, table_status, display, progressFrame>>

\* with progress_lock: of the polling loop
PollTake ==
    /\ poller.pc = "waiting"
    /\ progress_lock = LockFree
    /\ progress_lock' = LockPoller
    /\ poller' = [pc |-> "percent", i |-> 1, percent |-> 0]
    /\ UNCHANGED <<updater, table_progress, table_status, display, progressFrame>>

\* the loop condition is false: every future is done, on to as_completed
PollExit ==
    /\ pcMain = "poll"
    /\ poller.pc = "idle"
    /\ AllDone
    /\ pcMain' = "collect"
    /\ UNCHANGED <<inputVars, plannerVars, lockVars, rerunVars, coordVars, queue, display, submitted, collected,
                   results, successful_tables, failed_tables, total_rows_processed, workflow_result>>

\* the final UI update takes the lock, renders and releases it; the summary
\* is returned
FinalUpdateReturn ==
    /\ progress_lock = LockFree
    /\ WorkflowReturn

\* the steps of the main thread
MainStep ==
    \/ Submit
    \/ SubmitDone
    \/ PollEnter
    \/ PollTake
    \/ PollReadPercent
    \/ PollReadStatus
    \/ PollExit
    \/ \E t \in Tables : Collect(t)
    \/ FinalUpdateReturn

\* the steps of the worker thread that runs table t, the lock in hand or
\* none needed
RunStep(t) ==
    \/ UpdateWritePercent(t)
    \/ UpdateWriteStatus(t)
    \/ RunReturn(t)

TerminationNext ==
    \/ MainStep
    \/ \E w \in Workers : WorkerTake(w)
    \/ \E t \in Tables : RunUpdateAcquire(t)
    \/ \E t \in Tables : RunStep(t)

\* every thread that can take a step eventually takes it, and a worker that
\* asks for the lock again and again while the poller sleeps between two
\* rounds gets it
TerminationSpec ==
    /\ TerminationInit
    /\ [][TerminationNext]_vars
    /\ WF_vars(MainStep)
    /\ WF_vars(\E w \in Workers : WorkerTake(w))
    /\ \A t \in 1..MaxTables : /\ SF_vars(t \in Tables /\ RunUpdateAcquire(t))
                               /\ WF_vars(t \in Tables /\ RunStep(t))

TypeOK ==
    /\ pcMain \in {"submit", "poll", "collect", "done"}
    /\ \A t \in Tables : pc[t] \in {"new", "queued", "start", "batches", "done"}
    /\ \A w \in Workers : worker[w] \in Tables \cup {0}

\* ================================================================== claims
\* tables whose coordinator has started and not yet returned
RunningTables == {t \in Tables : pc[t] \in {"start", "batches"}}

\* C1: in both workflows, for every table list and every max_workers >= 1,
\* the number of table coordinators that have started and not yet returned
\* never exceeds max_workers; the other tables wait in the queue.
C1_BoundedConcurrency ==
    /\ Cardinality(RunningTables) <= max_workers
    /\ \A t \in Tables : pc[t] = "queued" <=> \E i \in DOMAIN queue : queue[i] = t

\* every worker is busy while a table still waits for a slot
C1_Witness ==
    /\ Cardinality(RunningTables) = max_workers
    /\ Len(queue) > 0
    /\ inplace

ResultsOf(t, rs) == {i \in DOMAIN rs : rs[i].table = t}

\* C2: with external calls that return or raise, every submitted table ends
\* up exactly once in the returned 'results', whatever the interleaving, and
\* total_tables == len(results) == successful_tables + failed_tables.
C2_AllTablesReported ==
    <>(/\ workflow_result.returned
       /\ \A t \in Tables : Cardinality(ResultsOf(t, workflow_result.results)) = 1
       /\ workflow_result.total_tables = Len(workflow_result.results)
       /\ Len(workflow_result.results) =
              workflow_result.successful_tables + workflow_result.failed_tables)

\* a returned workflow of two tables whose results are not in submission
\* order and one of whose futures raised
C2_Witness ==
    /\ workflow_result.returned
    /\ Len(workflow_result.results) = 2
    /\ workflow_result.results[1].table # 1
    /\ \E t \in Tables : future[t].raised

\* the masking calls of table t whose answer had fewer records than the request
ShortBatches(t) ==
    {i \in DOMAIN co[t].batch_results :
        LET x == co[t].batch_results[i].exchange
        IN  x.called /\ ~x.raised /\ x.received < x.sent}

FailedBatchNumbers(t) ==
    {future[t].result.failed_batches[j].batch_number : j \in DOMAIN future[t].result.failed_batches}

\* C3: a batch whose masking response holds fewer records than were sent has
\* success=false; the coordinator still runs the following batches, and the
\* table result is a failure whose failed_batches names that batch.
C3_ShortResponseFailsBatch ==
    \A t \in Tables :
        /\ \A i \in ShortBatches(t) : co[t].batch_results[i].outcome = "failed"
        /\ (pc[t] = "done" /\ ~future[t].raised /\ ShortBatches(t) # {}) =>
              /\ Len(co[t].batch_results) = co[t].total_batches
              /\ ~future[t].result.success
              /\ \A i \in ShortBatches(t) :
                    co[t].batch_results[i].batch_number \in FailedBatchNumbers(t)

\* the masking calls of table t whose answer lacked a column of the rules
MissingColumnBatches(t) ==
    {i \in DOMAIN co[t].batch_results :
        LET x == co[t].batch_results[i].exchange
        IN  x.called /\ ~x.raised /\ co[t].column_rules \ x.columns # {}}

\* kinds of value that are still the original, unmasked content of a cell
UnmaskedKinds == {"raw", "str", "dt_raw"}

\* C4: a batch whose masking response lacks a rule column fails and writes
\* nothing; no successful batch has written an original, unmasked value in a
\* rule column.
C4_MissingColumnFailsBatch ==
    \A t \in Tables :
        /\ \A i \in MissingColumnBatches(t) :
              /\ co[t].batch_results[i].outcome = "failed"
              /\ co[t].batch_results[i].final_df = <<>>
        /\ \A i \in DOMAIN co[t].batch_results :
              co[t].batch_results[i].outcome = "success" =>
                 \A r \in DOMAIN co[t].batch_results[i].final_df :
                 \A j \in DOMAIN co[t].batch_results[i].final_df[r] :
                    LET v == co[t].batch_results[i].final_df[r][j]
                    IN  v.c \in co[t].column_rules => v.k \notin UnmaskedKinds

\* row i of the source with the rule columns masked
IsMaskedRow(row, i, column_rules) ==
    /\ DOMAIN row = DOMAIN TableColumns
    /\ \A j \in DOMAIN row :
          IF TableColumns[j] \in column_rules
          THEN row[j].k \in {"masked", "dt_masked"} /\ row[j].r = i /\ row[j].c = TableColumns[j]
          ELSE row[j] = SourceRow(i)[j]

TableColumnSet == {TableColumns[j] : j \in DOMAIN TableColumns}

\* C5: an in-place run of a table with rows and at least one assigned
\* algorithm, in which every store and service call succeeds, ends with
\* success=true and the table holding its total_rows rows, each the original
\* row with the rule columns masked.
C5_InPlaceReplacesRows ==
    \A t \in Tables :
        ( /\ inplace
          /\ pc[t] = "done"
          /\ faults[t] = {}
          /\ co[t].column_rules # {}
          /\ co[t].column_rules \subseteq TableColumnSet
          /\ co[t].total_rows > 0 ) =>
            /\ future[t].result.success
            /\ Len(store[t].src) = co[t].total_rows
            /\ \A i \in DOMAIN store[t].src :
                  IsMaskedRow(store[t].src[i], i, co[t].column_rules)

\* the batches of table t that did not succeed
UnsuccessfulBatches(t) ==
    {n \in 1..co[t].total_batches :
        \A i \in DOMAIN co[t].batch_results :
            co[t].batch_results[i].batch_number = n => co[t].batch_results[i].outcome # "success"}

\* C6: a table result of the batch path is a success only if every one of
\* the total_batches batches succeeded; otherwise it is a failure whose
\* failed_batches holds an entry for every batch that did not succeed.
C6_FailedBatchesComplete ==
    \A t \in Tables :
        (pc[t] = "done" /\ ~future[t].raised /\ co[t].path = "batches" /\ co[t].total_batches > 0) =>
            IF future[t].result.success
            THEN UnsuccessfulBatches(t) = {}
            ELSE UnsuccessfulBatches(t) \subseteq FailedBatchNumbers(t)

\* every batch up to the current one has been attempted, in order
BatchesAttempted(t) ==
    co[t].path = "batches" =>
        /\ Len(co[t].batch_results) = co[t].batch_num - 1
        /\ \A i \in DOMAIN co[t].batch_results : co[t].batch_results[i].batch_number = i
        /\ (pc[t] = "done" /\ ~future[t].raised) =>
               Len(co[t].batch_results) = co[t].total_batches

NoAssignedAlgorithm(t) == \A i \in DOMAIN discovery[t] : ~discovery[t][i].ASSIGNED

FastCopied(t) ==
    /\ ~future[t].raised
    /\ co[t].path = "CTAS"
    /\ co[t].api_calls = 0
    /\ future[t].result.success
    /\ future[t].result.rows_processed = future[t].result.total_rows
    /\ future[t].result.total_rows = Len(store[t].src)

FailedTables == {t \in Tables : future[t].raised \/ ~future[t].result.success}

\* C9: the returned success is TRUE iff failed_table_details is empty, iff
\* no table failed; every table whose coordinator returned success=false or
\* raised is counted in failed_tables and listed in failed_table_details, and
\* successful_tables counts the others.
C9_SuccessIffNoFailure ==
    workflow_result.returned =>
        /\ workflow_result.success <=> (workflow_result.failed_table_details = <<>>)
        /\ workflow_result.success <=> (FailedTables = {})
        /\ workflow_result.failed_tables = Cardinality(FailedTables)
        /\ workflow_result.successful_tables = Cardinality(Tables \ FailedTables)
        /\ {workflow_result.failed_table_details[i].table :
               i \in DOMAIN workflow_result.failed_table_details} = FailedTables
        /\ Len(workflow_result.failed_table_details) = Cardinality(FailedTables)

\* a returned workflow in which one table succeeded and another one raised
C9_Witness ==
    /\ workflow_result.returned
    /\ ~workflow_result.success
    /\ workflow_result.successful_tables > 0
    /\ \E t \in Tables : future[t].raised

\* kinds of value that are a masked value returned by the service
MaskedKinds == {"masked", "maskedbad", "dt_masked"}

\* C10: the rows a batch writes have the columns of the source batch in the
\* same order and the same rows in the same order; every rule column holds
\* the masked value returned for that row, every other cell is the original.
C10_MergeRoundTrip ==
    \A t \in Tables : \A i \in DOMAIN co[t].batch_results :
        LET b == co[t].batch_results[i] IN
        b.outcome = "success" =>
            /\ Len(b.final_df) = Len(b.batch_df)
            /\ Columns(b.final_df) = Columns(b.batch_df)
            /\ \A r \in DOMAIN b.final_df : \A j \in DOMAIN b.final_df[r] :
                  IF b.batch_df[r][j].c \in co[t].column_rules
                  THEN /\ b.final_df[r][j].k \in MaskedKinds
                       /\ b.final_df[r][j].r = b.batch_df[r][j].r
                       /\ b.final_df[r][j].c = b.batch_df[r][j].c
                  ELSE b.final_df[r][j] = b.batch_df[r][j]

\* the behaviours of the masking service for one call
ServiceKinds == {"ok", "raise", "short", "nocol", "empty", "long", "baddate"}

\* a batch result of a batch that did not pass validation
IsValidationFailure(r) ==
    /\ ~r.success
    /\ r.rows_processed = 0
    /\ r.api_calls = 0
    /\ ~r.exchange.called
    /\ r.final_df = <<>>

\* C11: an empty batch, or a batch that lacks a column of the rules, yields a
\* failed batch result with rows_processed = 0, without a masking call and
\* without a row written to the destination: for the rules and rows of every
\* table that is about to process its first batch, whatever the service and
\* the write would do, and for every batch a coordinator has processed.
C11_ValidationFailsBatch ==
    /\ \A t \in {u \in Tables : pc[u] = "batches" /\ co[u].batch_num = 1} :
       \A svc \in ServiceKinds, save_success \in BOOLEAN :
          /\ IsValidationFailure(
                process_single_batch_masking(<<>>, 1, co[t].column_rules, svc, save_success))
          /\ (Len(store[t].src) > 0 /\ co[t].column_rules \ ColumnSet(store[t].src) # {}) =>
                IsValidationFailure(
                   process_single_batch_masking(store[t].src, 1, co[t].column_rules, svc, save_success))
    /\ \A t \in Tables : \A i \in DOMAIN co[t].batch_results :
          LET b == co[t].batch_results[i] IN
          (b.outcome \in {"success", "failed"} /\ co[t].column_rules \ ColumnSet(b.batch_df) # {}) =>
              /\ b.outcome = "failed"
              /\ b.error = "Missing columns in batch data"
              /\ b.rows_processed = 0
              /\ ~b.exchange.called
              /\ b.final_df = <<>>
              /\ co[t].api_calls = 0
              /\ co[t].total_rows_processed = 0

\* a table whose rule names a column the table does not have: its batch was
\* rejected and the destination is still empty at the end of the run
C11_Witness ==
    \E t \in Tables :
        /\ pc[t] = "done"
        /\ ~inplace
        /\ Len(co[t].batch_results) > 0
        /\ co[t].batch_results[1].error = "Missing columns in batch data"
        /\ Len(co[t].batch_results[1].batch_df) > 0
        /\ store[t].dst = <<>>
        /\ ~future[t].result.success

\* the rows of the destination of table t that were there before the run
StaleRows(t) == {i \in DOMAIN store[t].dst : store[t].dst[i] = StaleRow}

\* C12: in overwrite mode with a destination other than the source, the
\* destination is cleared once before the first batch and every batch is
\* appended: while the batches run the destination holds no row from before
\* the run, and after a run whose batches all succeeded it holds exactly the
\* rows this run wrote.
C12_OverwriteClearsOnce ==
    \A t \in Tables :
        (~inplace /\ write_mode = "overwrite" /\ co[t].path = "batches") =>
            /\ StaleRows(t) = {}
            /\ (pc[t] = "done" /\ ~future[t].raised /\ future[t].result.success) =>
                   Len(store[t].dst) = co[t].total_rows_processed

\* ------------------------------------------------------------ planner claims
\* a call of calculate_optimal_batch_size has returned
Planned == plan.path # "none"

C14_TotalBatchesIsCeiling ==
    Planned =>
        IF plan.total_rows > 0
        THEN plan.total_batches = CeilDiv(plan.total_rows, plan.batch_size)
        ELSE plan.total_batches = 0

\* C15: for every plan computed from column metadata the estimated payload of
\* one batch, batch_size * estimated_bytes_per_row, does not exceed the payload
\* ceiling, for every number and size of sensitive columns.
C15_PayloadUnderCeiling ==
    plan.path = "metadata" =>
        plan.batch_size * plan.estimated_bytes_per_row <= plan_request.ceiling

\* C16 as stated: for a fixed ceiling, table size and per-column byte size,
\* adding a sensitive column never yields a larger batch size.
C16_MonotoneInColumns ==
    Planned =>
        PlanFor(plan_request, plan_request.columns + 1).batch_size <= plan.batch_size

\* C16, amended: the same, starting from at least one sensitive column.
C16_MonotoneFromOneColumn ==
    (Planned /\ plan_request.columns >= 1) =>
        PlanFor(plan_request, plan_request.columns + 1).batch_size <= plan.batch_size

\* a plan computed from column metadata for which one more column of the same
\* size gives a strictly smaller batch
C16_Witness ==
    /\ plan.path = "metadata"
    /\ plan_request.columns >= 1
    /\ PlanFor(plan_request, plan_request.columns + 1).path = "metadata"
    /\ PlanFor(plan_request, plan_request.columns + 1).batch_size < plan.batch_size

\* x rounded down to a multiple of 10
Floor10(x) == x - (x % 10)

\* Scenario A: 10000 rows, three VARCHAR(100) sensitive columns, ceiling 1.8 MB
ScenarioA ==
    /\ plan_request.count = "ok"
    /\ plan_request.total_rows = 10000
    /\ plan_request.columns = 3
    /\ plan_request.column.DATA_TYPE = "VARCHAR"
    /\ plan_request.column.CHARACTER_MAXIMUM_LENGTH = 100
    /\ plan_request.meta = "rows"
    /\ plan_request.ceiling = DefaultCeilingBytes

\* C17: for bytesPerRow > 0 the batch size is floor10(max(10, floor(ceiling /
\* bytesPerRow))) clamped to total_rows; Scenario A, with bytesPerRow = 300,
\* yields batch_size 6290 and total_batches 2.
C17_BatchSizeFormula ==
    /\ (plan.path = "metadata" /\ plan.estimated_bytes_per_row > 0) =>
          plan.batch_size =
              Min(plan_request.total_rows,
                  Floor10(Max(10, plan_request.ceiling \div plan.estimated_bytes_per_row)))
    /\ (Planned /\ ScenarioA) =>
          /\ plan.estimated_bytes_per_row = 300
          /\ plan.batch_size = 6290
          /\ plan.total_batches = 2

\* Scenario A has been planned
C17_Witness ==
    /\ ScenarioA
    /\ plan.path = "metadata"
    /\ plan.batch_size = 6290

\* the row-count query raised, or the metadata query was issued and raised or
\* returned no row to estimate a size from
LookupFailed ==
    \/ plan_request.count = "raise"
    \/ /\ plan_request.count = "ok"
       /\ plan_request.total_rows > 0
       /\ plan_request.columns >= 1
       /\ plan_request.meta \in {"raise", "norows"}

\* C18: calculate_optimal_batch_size never raises; when the row-count query or
\* the metadata lookup fails, or yields no usable column size, it returns a
\* fallback plan with batch_size 1000, or total_rows if that is smaller and
\* known, together with an error entry.
C18_FallbackNeverRaises ==
    Planned =>
        /\ ~plan.raised
        /\ LookupFailed =>
              /\ plan.path = "fallback"
              /\ plan.error
              /\ plan.batch_size = IF plan_request.count = "ok"
                                   THEN Min(1000, plan_request.total_rows)
                                   ELSE 1000
        /\ plan.error => LookupFailed

\* the metadata query failed for a table of fewer than 1000 rows
C18_Witness ==
    /\ plan.path = "fallback"
    /\ plan.error
    /\ plan_request.count = "ok"
    /\ plan_request.meta = "raise"
    /\ plan_request.total_rows < 1000
    /\ plan.batch_size = plan_request.total_rows

\* C19: within one table the read windows are issued in ascending order with
\* offset (batch_num - 1) * batch_size and limit batch_size, hence do not
\* overlap and have strictly increasing offsets, and batch k + 1 is read only
\* after batch k has been masked, merged and written: the batch in hand is
\* always the one after the batches that are finished.
C19_ReadWindowsAscending ==
    \A t \in Tables :
        co[t].path = "batches" =>
            /\ co[t].optimal_batch_size > 0
            /\ co[t].batch_num = Len(co[t].batch_results) + 1
            /\ \A i \in DOMAIN co[t].batch_results :
                  LET b == co[t].batch_results[i]
                      limit == co[t].optimal_batch_size
                  IN  /\ b.batch_number = i
                      /\ b.offset = (i - 1) * limit
                      /\ Len(b.batch_df) <= limit
                      /\ (~inplace /\ b.outcome # "load_failed") =>
                            b.batch_df = SubSeq(store[t].src, b.offset + 1,
                                                Min(b.offset + limit, Len(store[t].src)))
                      /\ i > 1 => /\ co[t].batch_results[i - 1].offset < b.offset
                                  /\ co[t].batch_results[i - 1].offset + limit <= b.offset
                      /\ (b.outcome = "success" /\ ~inplace) =>
                            \A j \in DOMAIN b.final_df :
                                \E k \in DOMAIN store[t].dst : store[t].dst[k] = b.final_df[j]

\* a table whose second window has been read and written
C19_Witness ==
    \E t \in Tables :
        /\ Len(co[t].batch_results) >= 2
        /\ co[t].batch_results[2].offset = co[t].optimal_batch_size
        /\ co[t].batch_results[1].outcome = "success"
        /\ co[t].batch_results[2].outcome = "success"
        /\ Len(co[t].batch_results[2].batch_df) > 0

\* C20: every coordinator run, in the copy and in the in-place workflow,
\* emits progress percentages that start at 0, never decrease, stay within
\* 0..100, pass the checkpoints 10 and 20 before any batch progress in 20..90,
\* and end with 100 on every terminal path.
C20_ProgressCheckpoints ==
    \A t \in Tables :
        LET log == progress_log[t] IN
        /\ pc[t] \in {"batches", "done"} => (Len(log) > 0 /\ log[1].percent = 0)
        /\ \A i \in DOMAIN log : log[i].percent \in 0..100
        /\ \A i, j \in DOMAIN log : i < j => log[i].percent <= log[j].percent
        /\ \A i \in DOMAIN log :
              log[i].line = 993 =>
                  /\ log[i].percent \in 20..90
                  /\ \E j, k \in 1..(i - 1) : j < k /\ log[j].percent = 10 /\ log[k].percent = 20
        /\ pc[t] = "done" => (Len(log) > 0 /\ log[Len(log)].percent = 100)

\* the (percent, status) pairs the calls of update_progress for table t have
\* carried so far, and the pair the maps start with
PairsWritten(t) == {InitialProgress} \cup {ProgressCalls[k] : k \in 1..updater[t].call}

\* C21: every write and every read of table_progress and table_status is
\* made by the holder of progress_lock, and the (percent, status) pair the
\* poller renders for a table is the pair of one single update_progress call
\* (or the initial pair), under every interleaving of workers and poller.
C21_SnapshotIsOneUpdate ==
    /\ \A t \in Tables : updater[t].pc \in {"locked", "percent"} => progress_lock = t
    /\ poller.pc \in {"percent", "status"} => progress_lock = LockPoller
    /\ \A t \in Tables : display[t] \in PairsWritten(t)

\* the poller has rendered a table while the worker of that table, the lock
\* in hand, has written the percent of its next update and not yet the status
C21_Witness ==
    \E t \in Tables :
        /\ updater[t].pc = "percent"
        /\ updater[t].call >= 2
        /\ display[t] = ProgressCalls[updater[t].call - 1]
        /\ table_progress[t] # display[t][1]

\* the run_status values the events log has held for table t, in order
RECURSIVE WrittenOf(_)
WrittenOf(log) ==
    IF Len(log) = 0 THEN <<>>
    ELSE (IF Head(log).written THEN <<Head(log).status>> ELSE <<>>) \o WrittenOf(Tail(log))

StatusHistory(t) == WrittenOf(audit_log[t])

\* every write to the events log attempted for table t went through
AuditWritesOk(t) == \A i \in DOMAIN audit_log[t] : audit_log[t][i].written

\* C22: a table run registered as WAITING is moved to IN PROGRESS when its
\* coordinator is entered and to exactly one of COMPLETED and FAILED when the
\* coordinator returns; no other transition occurs and a terminal status is
\* not changed again, in the copy and in the in-place workflow.
C22_AuditLifecycle ==
    \A t \in Tables :
        AuditWritesOk(t) =>
            LET h == StatusHistory(t) IN
            /\ Len(h) <= 3
            /\ h[1] = "WAITING"
            /\ Len(h) >= 2 => h[2] = "IN PROGRESS"
            /\ Len(h) = 3 => h[3] \in {"COMPLETED", "FAILED"}
            /\ pc[t] \in {"new", "queued", "start"} => Len(h) = 1
            /\ pc[t] = "batches" => Len(h) = 2
            /\ pc[t] = "done" => Len(h) = 3
            /\ run_status[t] = h[Len(h)]

\* the last write to the events log attempted for table t failed
AuditWriteFailed(log) == Len(log) > 0 /\ ~log[Len(log)].written

\* C23: failures of the writes to the events log are swallowed: a step of a
\* coordinator during which such a write raises leaves the same table result
\* (success flag, rows_processed, failed_batches), the same locals and the
\* same rows in the destination as the step it takes, with the table store
\* and the masking service behaving alike, when the write succeeds.
C23_AuditFailuresSwallowed ==
    [][\A t \in Tables :
          (Len(audit_log'[t]) > Len(audit_log[t]) /\ AuditWriteFailed(audit_log'[t])) =>
              \E o \in CoordOutcomes(t) :
                  /\ pc'[t] = IF o.done THEN "done" ELSE "batches"
                  /\ co'[t] = o.locals
                  /\ store'[t] = o.store
                  /\ future'[t] = FutureAfter(t, o)]_vars

\* a table masked and delivered although no write to the events log went
\* through: the log still says WAITING
C23_Witness ==
    \E t \in Tables :
        /\ pc[t] = "done"
        /\ co[t].path = "batches"
        /\ Len(audit_log[t]) = 3
        /\ \A i \in 2..3 : ~audit_log[t][i].written
        /\ run_status[t] = "WAITING"
        /\ future[t].result.success
        /\ Len(store[t].dst) > 0

\* the batches of table t for which the masking service was called
CalledBatches(t) == {i \in DOMAIN co[t].batch_results : co[t].batch_results[i].exchange.called}

\* C24: no retry: the masking service is called at most once for a batch, a
\* batch whose call failed is not submitted again by the batch pipeline, the
\* coordinator or the workflow, and each batch number is processed at most
\* once in a table run.
C24_NoRetry ==
    \A t \in Tables :
        /\ co[t].api_calls = Cardinality(CalledBatches(t))
        /\ co[t].api_calls <= co[t].total_batches
        /\ Len(co[t].batch_results) <= co[t].total_batches
        /\ \A i, j \in DOMAIN co[t].batch_results :
              co[t].batch_results[i].batch_number = co[t].batch_results[j].batch_number => i = j
        /\ Cardinality({i \in DOMAIN results : results[i].table = t}) <= 1

\* a table of two batches whose first masking call raised: the second batch
\* was processed next and the run is over after two calls
C24_Witness ==
    \E t \in Tables :
        /\ pc[t] = "done"
        /\ co[t].total_batches = 2
        /\ Len(co[t].batch_results) = 2
        /\ co[t].batch_results[1].outcome = "failed"
        /\ co[t].batch_results[1].exchange.raised
        /\ co[t].batch_results[2].batch_number = 2
        /\ co[t].api_calls = 2

\* rows_processed summed over the first n batches of a history, counting
\* those that succeeded
RECURSIVE SuccessfulRowsTo(_, _)
SuccessfulRowsTo(batch_results, n) ==
    IF n = 0 THEN 0
    ELSE (IF batch_results[n].outcome = "success" THEN batch_results[n].rows_processed ELSE 0)
         + SuccessfulRowsTo(batch_results, n - 1)

SuccessfulRows(batch_results) == SuccessfulRowsTo(batch_results, Len(batch_results))

\* C25: the rows_processed a table reports is the sum of rows_processed over
\* exactly the batches that succeeded, at every point of the batch loop and in
\* the result returned after it; the rows a failed batch reports (a failed
\* save reports the rows of its batch) are never added.
C25_RowsOfSuccessfulBatches ==
    \A t \in Tables :
        /\ co[t].total_rows_processed = SuccessfulRows(co[t].batch_results)
        /\ (pc[t] = "done" /\ co[t].path = "batches" /\ ~future[t].raised)
              => future[t].result.rows_processed = SuccessfulRows(co[t].batch_results)

C25_Witness ==
    \E t \in Tables :
        /\ pc[t] = "done" /\ co[t].path = "batches" /\ ~future[t].raised
        /\ \E i, j \in DOMAIN co[t].batch_results :
              /\ co[t].batch_results[i].outcome = "failed"
              /\ co[t].batch_results[i].rows_processed > 0
              /\ co[t].batch_results[j].outcome = "success"
              /\ future[t].result.rows_processed = co[t].batch_results[j].rows_processed

\* C26: when the service returns, for a column whose name ends in DOB or
\* contains DATE, a masked value that does not parse as a date, the batch
\* succeeds and the row is written with that raw masked value in the column,
\* not with a null.
C26_UnparsedDateKept ==
    \A t \in Tables : \A n \in DOMAIN co[t].batch_results :
        LET b == co[t].batch_results[n] IN
        (b.exchange.called /\ ~b.exchange.raised /\ b.exchange.unparsed # {}
            /\ b.exchange.received = b.exchange.sent /\ b.error # "Data save failed") =>
            /\ b.outcome = "success"
            /\ \A p \in b.exchange.unparsed : \A j \in DOMAIN b.final_df[p[1]] :
                  b.final_df[p[1]][j].c = p[2] =>
                      b.final_df[p[1]][j] = Cell("maskedbad", b.batch_df[p[1]][j].r, p[2])

\* C27: when the fast copy of a table has succeeded twice in a row, the source
\* is what it was, the destination has the row count of the source after the
\* first run and after the second, and both runs report that count as
\* rows_processed.
C27_FastCopyIdempotent ==
    \A t \in Tables :
        (/\ previous_run[t].ran /\ ~previous_run[t].raised
         /\ previous_run[t].result.method = "CTAS" /\ previous_run[t].result.success
         /\ pc[t] = "done" /\ ~future[t].raised
         /\ future[t].result.method = "CTAS" /\ future[t].result.success) =>
            /\ store[t].src = previous_run[t].store.src
            /\ Len(previous_run[t].store[DestKey]) = Len(store[t].src)
            /\ Len(store[t][DestKey]) = Len(store[t].src)
            /\ previous_run[t].result.rows_processed = Len(store[t].src)
            /\ future[t].result.rows_processed = previous_run[t].result.rows_processed

\* two successful copies, into a destination that held another row before
\* the first one
C27_Witness ==
    \E t \in Tables :
        /\ previous_run[t].ran /\ previous_run[t].result.success
        /\ pc[t] = "done" /\ ~future[t].raised /\ future[t].result.success
        /\ future[t].result.method = "CTAS"
        /\ ~inplace /\ write_mode = "append"
        /\ Len(store[t].src) = 2
        /\ store[t].dst = store[t].src
        /\ future[t].result.rows_processed = 2

\* the batch numbers whose window [offset, offset + batch_size) holds row
\* position p
WindowsHolding(t, p) ==
    {b \in 1..co[t].total_batches :
        /\ WindowOffset(b, co[t].optimal_batch_size) <= p
        /\ p < WindowOffset(b, co[t].optimal_batch_size) + co[t].optimal_batch_size}

\* C28: whatever plan the coordinator works with, the planner's own or its
\* fallback, the batch size is at least 1, the number of batches is
\* ceil(total_rows / batch_size), and every row position of the table lies in
\* the window of exactly one batch number.  The plan is made once, before the
\* first batch, and the positions are counted when the loop is entered.
C28_WindowsPartitionRows ==
    \A t \in Tables :
        co[t].path = "batches" =>
            /\ co[t].optimal_batch_size >= 1
            /\ co[t].total_batches * co[t].optimal_batch_size >= co[t].total_rows
            /\ (co[t].total_batches - 1) * co[t].optimal_batch_size < co[t].total_rows
            /\ co[t].batch_num = 1 =>
                   \A p \in 0..(co[t].total_rows - 1) : Cardinality(WindowsHolding(t, p)) = 1

\* a table of 12 rows run in two windows of 10, the second one partly filled
C28_Witness ==
    \E t \in Tables :
        /\ pc[t] = "done" /\ co[t].path = "batches"
        /\ co[t].total_rows = MaxRows /\ co[t].total_batches = 2
        /\ co[t].total_rows % co[t].optimal_batch_size # 0
        /\ Len(co[t].batch_results) = 2
        /\ Len(co[t].batch_results[1].batch_df) = co[t].optimal_batch_size
        /\ Len(co[t].batch_results[2].batch_df) = co[t].total_rows - co[t].optimal_batch_size

\* C29: when the batch loop of a table has ended, every batch number is
\* counted as a success or recorded as a failure, a batch whose window read
\* returned no rows included: successful_batches + len(failed_batches) is
\* total_batches, and a table that fails after its loop names a failed batch.
C29_EveryBatchAccounted ==
    \A t \in Tables :
        (co[t].path = "batches" /\ co[t].batch_num > co[t].total_batches) =>
            /\ co[t].successful_batches + Len(co[t].failed_batches) = co[t].total_batches
            /\ (pc[t] = "done" /\ ~future[t].raised /\ ~future[t].result.success) =>
                   Len(future[t].result.failed_batches) > 0

\* the last run_status the coordinator of table t sent to the events log
LastAuditStatus(t) == audit_log[t][Len(audit_log[t])].status

\* C30: when a coordinator that was given a run_id has returned, the last
\* status it sent to the events log agrees with its result: COMPLETED when
\* success is true, FAILED when it is false, on every exit (no discovery
\* metadata, fast copy, empty source table, after the batch loop).
C30_AuditAgreesWithResult ==
    \A t \in Tables :
        (~inplace /\ pc[t] = "done" /\ ~future[t].raised) =>
            /\ LastAuditStatus(t) \in {"COMPLETED", "FAILED"}
            /\ LastAuditStatus(t) = "COMPLETED" <=> future[t].result.success

\* with one worker thread the queue is served first in, first out and a table
\* is started only when the one before it has finished: the coordinators
\* finish in the order of submission
SingleWorkerFinishOrder ==
    max_workers = 1 =>
        \A t, u \in Tables : (t < u /\ future[u].state \in {"running", "finished"}) =>
                                  future[t].state = "finished"

\* the tables of the results collected so far, in the order of the list
ResultTables == [i \in DOMAIN results |-> results[i].table]

\* C32: the results list follows the order in which the coordinators finished.
\* Where that order is known, in the runs with one worker thread, in which
\* table k finishes before table k + 1 starts, the results are listed in
\* that order.
C32_ResultsInCompletionOrder ==
    /\ SingleWorkerFinishOrder
    /\ max_workers = 1 =>
          \A i, j \in DOMAIN ResultTables : i < j => ResultTables[i] < ResultTables[j]

\* C31: the poller holds progress_lock only while it reads the maps, never
\* while it sleeps or waits for a future; a worker holds it only for the two
\* assignments of update_progress; nobody holds it once the polling loop is
\* left.  With external calls that return, the polling loop is left once
\* every future is done and the workflow returns, for every table list and
\* every number of workers.
C31_WorkflowTerminates ==
    /\ [](/\ progress_lock = LockPoller => (pcMain = "poll" /\ poller.pc \in {"percent", "status"})
          /\ \A t \in Tables : progress_lock = t => (pc[t] = "start" /\ updater[t].pc \in {"locked", "percent"})
          /\ pcMain \in {"collect", "done"} => (AllDone /\ progress_lock = LockFree))
    /\ AllDone ~> (pcMain \in {"collect", "done"})
    /\ <>(pcMain = "done" /\ workflow_result.returned)

\* a returned workflow of two tables and one worker thread whose poller has
\* rendered the pair of the last update of every table
C31_Witness ==
    /\ pcMain = "done"
    /\ workflow_result.returned
    /\ Len(selected_tables) = 2
    /\ max_workers = 1
    /\ progress_lock = LockFree
    /\ \A t \in Tables : /\ updater[t].call = Len(ProgressCalls)
                         /\ display[t] = ProgressCalls[Len(ProgressCalls)]

====
